---- MODULE Spec2Model ----
(***************************************************************************)
(* Model of speech_obs.py: live speech recognition -> translation ->       *)
(* chunked subtitles pushed to an OBS text source.                         *)
(*                                                                         *)
(* Two threads are modelled.  The main thread runs the module-level OBS    *)
(* connection (lines 22-34) and main() (lines 111-124).  The recognizer's  *)
(* callback thread runs on_recognized (lines 95-108) and everything it     *)
(* calls.  Texts are sequences of one-character strings so that split,     *)
(* strip and join are computed, not assumed.                               *)
(***************************************************************************)
EXTENDS Integers, Sequences, FiniteSets, TLC

\* ---------------------------------------------------------------- bounds

\* longest completion text enumerated character by character
MaxLen == 3
\* number of recognition events the recognizer delivers in one run
MaxEvents == 2

\* ------------------------------------------------------ program constants

MAX_SUBTITLE_LENGTH == 60

\* the placeholder returned by translate_text on failure (lines 66, 69)
TranslationError ==
    << "[", "T", "r", "a", "n", "s", "l", "a", "t", "i", "o", "n", " ",
       "E", "r", "r", "o", "r", "]" >>

\* the test subtitle sent at startup (line 29), kept as one opaque token
TestSubtitle == << "Testing connection to OBS..." >>

\* what the overlay shows before the program touches it
PriorOverlayText == << "?" >>

\* ------------------------------------------------------------ text inputs

Alphabet == {"a", " "}
Whitespace == {" "}

SeqsUpTo(n) == UNION {[1..k -> Alphabet] : k \in 0..n}

\* a text one character longer than the limit, made of several words
LongText == [k \in 1..(MAX_SUBTITLE_LENGTH + 1) |-> IF k % 7 = 0 THEN " " ELSE "a"]

\* the 150-character translation of the end-to-end scenario
Text150 == [k \in 1..150 |-> IF k % 7 = 0 THEN " " ELSE "a"]

\* the texts a completion can carry (message.content of the response)
Contents == SeqsUpTo(MaxLen) \cup {LongText, Text150}

\* how the translation-service call of line 55 can turn out:
\*   raise     - client.chat.completions.create raises
\*   error     - the response makes `"error" in completion` true
\*   malformed - the response has no choices[0].message.content string
\*   ok        - a completion with a content string
Responses ==
    {[kind |-> k, content |-> <<>>] : k \in {"raise", "error", "malformed"}}
        \cup {[kind |-> "ok", content |-> c] : c \in Contents}

\* recognition results the recognizer can deliver
SourceTexts == {<< "a" >>}
Events ==
    {[reason |-> "RecognizedSpeech", cancel |-> "none", text |-> t] : t \in SourceTexts}
        \cup {[reason |-> r, cancel |-> "none", text |-> <<>>] :
                 r \in {"NoMatch", "RecognizingSpeech"}}
        \cup {[reason |-> "Canceled", cancel |-> c, text |-> <<>>] :
                 c \in {"Error", "EndOfStream", "CancelledByUser"}}

NoEvent == [reason |-> "none", cancel |-> "none", text |-> <<>>]
NoResponse == [kind |-> "none", content |-> <<>>]

\* ------------------------------------------------------- string functions

\* str.split() with no argument: the maximal runs of non-whitespace
\* characters, in order; runs of whitespace separate words and yield none
WordStarts(s) ==
    {k \in 1..Len(s) : s[k] \notin Whitespace /\ (k = 1 \/ s[k - 1] \in Whitespace)}

WordEnd(s, k) ==
    CHOOSE j \in k..Len(s) :
        /\ \A m \in k..j : s[m] \notin Whitespace
        /\ (j = Len(s) \/ s[j + 1] \in Whitespace)

Split(s) ==
    LET starts == WordStarts(s)
        nth(n) == CHOOSE k \in starts : Cardinality({m \in starts : m < k}) = n - 1
    IN [n \in 1..Cardinality(starts) |-> SubSeq(s, nth(n), WordEnd(s, nth(n)))]

\* " ".join(list)
RECURSIVE Join(_)
Join(list) ==
    IF list = <<>> THEN <<>>
    ELSE IF Len(list) = 1 THEN list[1]
    ELSE list[1] \o << " " >> \o Join(Tail(list))

\* str.strip(): drop leading and trailing whitespace
RECURSIVE LStrip(_)
LStrip(s) ==
    IF s # <<>> /\ s[1] \in Whitespace THEN LStrip(Tail(s)) ELSE s

RECURSIVE RStrip(_)
RStrip(s) ==
    IF s # <<>> /\ s[Len(s)] \in Whitespace
    THEN RStrip(SubSeq(s, 1, Len(s) - 1))
    ELSE s

Strip(s) == RStrip(LStrip(s))

\* Python values tagged with their type, for the arithmetic of line 80
PyStr(s) == [ty |-> "str", len |-> Len(s)]
PyInt(n) == [ty |-> "int", len |-> n]
PyTypeError == [ty |-> "TypeError", len |-> 0]

\* x + y: str + str concatenates, int + int adds, str + int raises TypeError
PyAdd(x, y) ==
    IF x.ty = "str" /\ y.ty = "str" THEN [ty |-> "str", len |-> x.len + y.len]
    ELSE IF x.ty = "int" /\ y.ty = "int" THEN [ty |-> "int", len |-> x.len + y.len]
    ELSE PyTypeError

\* len(x): defined on str, TypeError on int
PyLen(x) == IF x.ty = "str" THEN PyInt(x.len) ELSE PyTypeError

\* line 80: len(" ".join(current_chunk) + len(word) + 1) <= MAX_SUBTITLE_LENGTH
\* "fits", "overflow", or "TypeError" when evaluating the condition raises
LengthCheck(chunk, word) ==
    LET sum == PyAdd(PyAdd(PyStr(Join(chunk)), PyInt(Len(word))), PyInt(1))
        n == PyLen(sum)
    IN IF n.ty = "TypeError" THEN "TypeError"
       ELSE IF n.len <= MAX_SUBTITLE_LENGTH THEN "fits" ELSE "overflow"

\* ------------------------------------------------------------------ state

VARIABLES
    main_pc,            \* position of the main thread
    exit_code,          \* "running", "0", "1" or "SIGINT"
    obs_connected,      \* obs_client is connected
    handler_registered, \* recognizer.recognized has on_recognized connected
    recognizing,        \* continuous recognition is running
    lifecycle,          \* what the main thread has done so far, in order
    obs_text,           \* text the overlay currently shows
    cb_pc,              \* position of the callback thread
    cur,                \* number of events delivered so far
    ended,              \* number of handler invocations that have ended
    event,              \* the event being handled
    response,           \* what the translation service answered for it
    translate_calls,    \* translation calls made for the current event
    translated_text,    \* on_recognized: translated_text
    words,              \* display_subtitles: words
    current_chunk,      \* display_subtitles: current_chunk
    subtitle_chunks,    \* display_subtitles: subtitle_chunks
    wi,                 \* words already consumed by the for loop of line 79
    ci,                 \* chunks already consumed by the for loop of line 92
    sent,               \* update_obs_subtitles calls of the current event
    raised,             \* exception that left on_recognized, or "none"
    obs_before          \* overlay text when the current event was delivered

mainVars == <<main_pc, exit_code, obs_connected, handler_registered, recognizing,
              lifecycle>>
localVars == <<translated_text, words, current_chunk, subtitle_chunks, wi, ci>>
cbVars == <<cb_pc, cur, ended, event, response, translate_calls, sent, raised,
            obs_before>>
vars == <<mainVars, obs_text, cbVars, localVars>>

Init ==
    /\ main_pc = "connect"
    /\ exit_code = "running"
    /\ obs_connected = FALSE
    /\ handler_registered = FALSE
    /\ recognizing = FALSE
    /\ lifecycle = <<>>
    /\ obs_text = PriorOverlayText
    /\ cb_pc = "idle"
    /\ cur = 0
    /\ ended = 0
    /\ event = NoEvent
    /\ response = NoResponse
    /\ translate_calls = 0
    /\ translated_text = <<>>
    /\ words = <<>>
    /\ current_chunk = <<>>
    /\ subtitle_chunks = <<>>
    /\ wi = 0
    /\ ci = 0
    /\ sent = <<>>
    /\ raised = "none"
    /\ obs_before = PriorOverlayText

Running == main_pc # "exited"

\* ------------------------------------------------------------ main thread

\* the except branch without its exit(1): execution falls through to main()
AfterStartupFailure_NoExit == [pc |-> "register", code |-> "running"]

\* lines 32-34: the except branch of the startup block prints and calls exit(1)
AfterStartupFailure == [pc |-> "exited", code |-> "1"]

StartupFails ==
    /\ main_pc' = AfterStartupFailure.pc
    /\ exit_code' = AfterStartupFailure.code
    /\ lifecycle' = Append(lifecycle, "startup_failed")

\* line 24: obs_client.connect()
Connect ==
    /\ main_pc = "connect"
    /\ \E ok \in BOOLEAN :
          IF ok
          THEN /\ obs_connected' = TRUE
               /\ main_pc' = "test_call"
               /\ lifecycle' = Append(lifecycle, "connected")
               /\ UNCHANGED exit_code
          ELSE /\ StartupFails
               /\ UNCHANGED obs_connected
    /\ UNCHANGED <<handler_registered, recognizing, obs_text, cbVars, localVars>>

\* lines 27-31: the test subtitle sent through the fresh connection
TestCall ==
    /\ main_pc = "test_call"
    /\ \E ok \in BOOLEAN :
          IF ok
          THEN /\ obs_text' = TestSubtitle
               /\ main_pc' = "register"
               /\ lifecycle' = Append(lifecycle, "test_subtitle")
               /\ UNCHANGED exit_code
          ELSE /\ StartupFails
               /\ UNCHANGED obs_text
    /\ UNCHANGED <<obs_connected, handler_registered, recognizing, cbVars, localVars>>

\* line 113: recognizer.recognized.connect(on_recognized)
RegisterHandler ==
    /\ main_pc = "register"
    /\ handler_registered' = TRUE
    /\ main_pc' = "start"
    /\ lifecycle' = Append(lifecycle, "register")
    /\ UNCHANGED <<exit_code, obs_connected, recognizing, obs_text, cbVars, localVars>>

\* line 114: recognizer.start_continuous_recognition()
StartRecognition ==
    /\ main_pc = "start"
    /\ recognizing' = TRUE
    /\ main_pc' = "listen"
    /\ lifecycle' = Append(lifecycle, "start")
    /\ UNCHANGED <<exit_code, obs_connected, handler_registered, obs_text, cbVars,
                   localVars>>

\* lines 116-120: print the banner and enter the try block's sleep loop
EnterLoop ==
    /\ main_pc = "listen"
    /\ main_pc' = "sleep"
    /\ lifecycle' = Append(lifecycle, "listening")
    /\ UNCHANGED <<exit_code, obs_connected, handler_registered, recognizing, obs_text,
                   cbVars, localVars>>

\* lines 121-122: Ctrl+C while the main thread is inside the try block
KeyboardInterruptInLoop ==
    /\ main_pc = "sleep"
    /\ main_pc' = "stop"
    /\ lifecycle' = Append(lifecycle, "KeyboardInterrupt")
    /\ UNCHANGED <<exit_code, obs_connected, handler_registered, recognizing, obs_text,
                   cbVars, localVars>>

\* Ctrl+C before the try block of line 117 is entered: KeyboardInterrupt is not
\* an Exception, so neither line 32 nor line 121 catches it and the process dies
KeyboardInterruptUncaught ==
    /\ main_pc \in {"connect", "test_call", "register", "start", "listen"}
    /\ main_pc' = "exited"
    /\ exit_code' = "SIGINT"
    /\ lifecycle' = Append(lifecycle, "KeyboardInterrupt")
    /\ UNCHANGED <<obs_connected, handler_registered, recognizing, obs_text, cbVars,
                   localVars>>

\* line 123: recognizer.stop_continuous_recognition()
StopRecognition ==
    /\ main_pc = "stop"
    /\ recognizing' = FALSE
    /\ main_pc' = "disconnect"
    /\ lifecycle' = Append(lifecycle, "stop")
    /\ UNCHANGED <<exit_code, obs_connected, handler_registered, obs_text, cbVars,
                   localVars>>

\* line 124: obs_client.disconnect(), after which main() returns and the
\* interpreter exits with status 0
Disconnect ==
    /\ main_pc = "disconnect"
    /\ obs_connected' = FALSE
    /\ main_pc' = "exited"
    /\ exit_code' = "0"
    /\ lifecycle' = Append(lifecycle, "disconnect")
    /\ UNCHANGED <<handler_registered, recognizing, obs_text, cbVars, localVars>>

\* -------------------------------------------------------- callback thread

\* a handler that hands the display work off and returns before it is done
ReturnedToSDK_Early(pc) == pc \in {"idle", "loop", "send_chunks"}

\* on_recognized is an ordinary synchronous function (lines 95-108): control is
\* back with the recognizer only when no invocation is in progress
ReturnedToSDK(pc) == pc = "idle"

\* the recognizer fires `recognized` and calls the connected handler
Deliver ==
    /\ Running
    /\ recognizing
    /\ handler_registered
    /\ ReturnedToSDK(cb_pc)
    /\ cur < MaxEvents
    /\ \E ev \in Events : event' = ev
    /\ cur' = cur + 1
    /\ cb_pc' = "on_recognized"
    /\ response' = NoResponse
    /\ translate_calls' = 0
    /\ sent' = <<>>
    /\ raised' = "none"
    /\ obs_before' = obs_text
    /\ translated_text' = <<>>
    /\ words' = <<>>
    /\ current_chunk' = <<>>
    /\ subtitle_chunks' = <<>>
    /\ wi' = 0
    /\ ci' = 0
    /\ UNCHANGED <<mainVars, obs_text, ended>>

\* the first test inverted for NoMatch: a no-match result is translated too
Branch_NoMatchTranslated(ev) ==
    IF ev.reason \in {"RecognizedSpeech", "NoMatch"} THEN "translate"
    ELSE IF ev.reason = "Canceled"
         THEN IF ev.cancel = "Error" THEN "log_error" ELSE "log"
    ELSE "nothing"

\* the if/elif chain of lines 97-108: which branch an event takes
Branch(ev) ==
    IF ev.reason = "RecognizedSpeech" THEN "translate"
    ELSE IF ev.reason = "NoMatch" THEN "log"
    ELSE IF ev.reason = "Canceled"
         THEN IF ev.cancel = "Error" THEN "log_error" ELSE "log"
    ELSE "nothing"

\* lines 97-108: dispatch on the reason; every branch but the first only prints
on_recognized ==
    /\ Running
    /\ cb_pc = "on_recognized"
    /\ IF Branch(event) = "translate"
       THEN cb_pc' = "translate" /\ UNCHANGED ended
       ELSE cb_pc' = "idle" /\ ended' = ended + 1
    /\ UNCHANGED <<mainVars, obs_text, cur, event, response, translate_calls, sent,
                   raised, obs_before, localVars>>

\* translate_text without the except clause of lines 67-69
translate_text_NoExcept(resp) ==
    IF resp.kind = "raise"
    THEN [raised |-> TRUE, value |-> <<>>]
    ELSE IF resp.kind = "error"
    THEN [raised |-> TRUE, value |-> <<>>]
    ELSE IF resp.kind = "malformed"
    THEN [raised |-> TRUE, value |-> <<>>]
    ELSE [raised |-> FALSE, value |-> Strip(resp.content)]

\* lines 52-69: the value translate_text returns for a service response, or
\* the fact that it raises
translate_text(resp) ==
    IF resp.kind = "raise"
    THEN [raised |-> FALSE, value |-> TranslationError]      \* line 67-69
    ELSE IF resp.kind = "error"
    THEN [raised |-> FALSE, value |-> TranslationError]      \* line 64-66 (or 67-69)
    ELSE IF resp.kind = "malformed"
    THEN [raised |-> FALSE, value |-> TranslationError]      \* line 63 raises, 67-69
    ELSE [raised |-> FALSE, value |-> Strip(resp.content)]   \* line 63

\* line 99: translated_text = translate_text(event.result.text)
CallTranslateText ==
    /\ Running
    /\ cb_pc = "translate"
    /\ \E resp \in Responses :
          LET r == translate_text(resp)
          IN /\ response' = resp
             /\ translate_calls' = translate_calls + 1
             /\ IF r.raised
                THEN /\ raised' = "TranslationFailure"
                     /\ cb_pc' = "idle"
                     /\ ended' = ended + 1
                     /\ UNCHANGED translated_text
                ELSE /\ translated_text' = r.value
                     /\ cb_pc' = "display_subtitles"
                     /\ UNCHANGED <<raised, ended>>
    /\ UNCHANGED <<mainVars, obs_text, cur, event, sent, obs_before, words,
                   current_chunk, subtitle_chunks, wi, ci>>

\* lines 38-49: one overlay call; `ok` says whether obs_client.call returned.
\* The except branch swallows the failure, so the function never raises.
update_obs_subtitles(text, ok) ==
    [raised |-> FALSE, applied |-> ok, text |-> text]

\* an overlay call can only succeed through an open connection
CallOutcomes == IF obs_connected THEN BOOLEAN ELSE {FALSE}

\* display_subtitles without the call of line 77
FirstUpdate_Skipped(text) == <<>>

\* line 77: what display_subtitles sends before it starts chunking
FirstUpdate(text) == << text >>

\* lines 73-77: split, initialise, and send the whole text
DisplayBegin ==
    /\ Running
    /\ cb_pc = "display_subtitles"
    /\ words' = Split(translated_text)
    /\ current_chunk' = <<>>
    /\ subtitle_chunks' = <<>>
    /\ wi' = 0
    /\ \E ok \in CallOutcomes :
          LET first == FirstUpdate(translated_text)
              calls == [k \in 1..Len(first) |-> update_obs_subtitles(first[k], ok)]
          IN /\ sent' = sent \o [k \in 1..Len(calls) |->
                                    [text |-> calls[k].text, ok |-> calls[k].applied]]
             /\ obs_text' = IF calls # <<>> /\ calls[1].applied THEN calls[1].text
                            ELSE obs_text
             /\ IF calls # <<>> /\ calls[1].raised
                THEN raised' = "OverlayFailure" /\ cb_pc' = "idle" /\ ended' = ended + 1
                ELSE cb_pc' = "loop" /\ UNCHANGED <<raised, ended>>
    /\ UNCHANGED <<mainVars, cur, event, response, translate_calls, obs_before,
                   translated_text, ci>>

\* lines 79-88: one iteration of the word loop, or the final append after it
ChunkLoop ==
    /\ Running
    /\ cb_pc = "loop"
    /\ IF wi < Len(words)
       THEN LET word == words[wi + 1]
                check == LengthCheck(current_chunk, word)
            IN IF check = "TypeError"
               THEN \* the condition of line 80 raises; nothing catches it
                    /\ raised' = "TypeError"
                    /\ cb_pc' = "idle"
                    /\ ended' = ended + 1
                    /\ UNCHANGED <<current_chunk, subtitle_chunks, wi>>
               ELSE IF check = "fits"
               THEN /\ current_chunk' = Append(current_chunk, word)
                    /\ wi' = wi + 1
                    /\ UNCHANGED <<subtitle_chunks, raised, cb_pc, ended>>
               ELSE /\ subtitle_chunks' = Append(subtitle_chunks, Join(current_chunk))
                    /\ current_chunk' = << word >>
                    /\ wi' = wi + 1
                    /\ UNCHANGED <<raised, cb_pc, ended>>
       ELSE \* line 88
            /\ subtitle_chunks' = Append(subtitle_chunks, Join(current_chunk))
            /\ cb_pc' = "send_chunks"
            /\ UNCHANGED <<current_chunk, wi, raised, ended>>
    /\ UNCHANGED <<mainVars, obs_text, cur, event, response, translate_calls, sent,
                   obs_before, translated_text, words, ci>>

\* lines 92-93: one iteration of the chunk loop
SendChunk ==
    /\ Running
    /\ cb_pc = "send_chunks"
    /\ ci < Len(subtitle_chunks)
    /\ \E ok \in CallOutcomes :
          LET call == update_obs_subtitles(subtitle_chunks[ci + 1], ok)
          IN /\ sent' = Append(sent, [text |-> call.text, ok |-> call.applied])
             /\ obs_text' = IF call.applied THEN call.text ELSE obs_text
             /\ IF call.raised
                THEN raised' = "OverlayFailure" /\ cb_pc' = "idle" /\ ended' = ended + 1
                ELSE UNCHANGED <<raised, cb_pc, ended>>
    /\ ci' = ci + 1
    /\ UNCHANGED <<mainVars, cur, event, response, translate_calls, obs_before,
                   translated_text, words, current_chunk, subtitle_chunks, wi>>

\* the chunk loop is exhausted: display_subtitles and on_recognized return
HandlerReturn ==
    /\ Running
    /\ cb_pc = "send_chunks"
    /\ ci = Len(subtitle_chunks)
    /\ cb_pc' = "idle"
    /\ ended' = ended + 1
    /\ UNCHANGED <<mainVars, obs_text, cur, event, response, translate_calls, sent,
                   raised, obs_before, localVars>>

\* ----------------------------------------------------------- specification

Next ==
    \/ Connect
    \/ TestCall
    \/ RegisterHandler
    \/ StartRecognition
    \/ EnterLoop
    \/ KeyboardInterruptInLoop
    \/ KeyboardInterruptUncaught
    \/ StopRecognition
    \/ Disconnect
    \/ Deliver
    \/ on_recognized
    \/ CallTranslateText
    \/ DisplayBegin
    \/ ChunkLoop
    \/ SendChunk
    \/ HandlerReturn

Spec == Init /\ [][Next]_vars

\* ------------------------------------------------------------- properties

\* the handler invocation for the current event is over (returned or raised)
HandlerEnded == cur > 0 /\ cb_pc = "idle" /\ ended = cur
Recognized == event.reason = "RecognizedSpeech"
SentTexts == [k \in 1..Len(sent) |-> sent[k].text]
Did(what) == \E k \in 1..Len(lifecycle) : lifecycle[k] = what

C2_RoundTrip ==
    (HandlerEnded /\ Recognized) => Join(subtitle_chunks) = translated_text

\* C3: once a RecognizedSpeech event has been handled, the overlay updates issued
\* are exactly the chunks, in order; one update for a translation within the
\* limit and three for the 150-character translation.
C3_UpdatesAreTheChunks ==
    (HandlerEnded /\ Recognized) =>
        /\ SentTexts = subtitle_chunks
        /\ (Len(translated_text) <= MAX_SUBTITLE_LENGTH => Len(sent) = 1)
        /\ (translated_text = Text150 => Len(sent) = 3)

\* C4: no exception ever leaves on_recognized.
C4_HandlerNeverRaises == raised = "none"

\* t is c with its leading and trailing whitespace removed
IsStripOf(c, t) ==
    /\ Len(t) <= Len(c)
    /\ t # <<>> => (t[1] \notin Whitespace /\ t[Len(t)] \notin Whitespace)
    /\ \E i \in 0..(Len(c) - Len(t)) :
          /\ SubSeq(c, i + 1, i + Len(t)) = t
          /\ \A k \in (1..i) \cup ((i + Len(t) + 1)..Len(c)) : c[k] \in Whitespace

\* C5: translate_text never raises; a failed service call (exception, error
\* response or malformed response) yields the placeholder, a completion yields
\* its content without leading and trailing whitespace.
C5_TranslateNeverRaises ==
    /\ raised # "TranslationFailure"
    /\ translate_calls = 1 =>
          /\ response.kind \in {"raise", "error", "malformed"} =>
                translated_text = TranslationError
          /\ response.kind = "ok" => IsStripOf(response.content, translated_text)

C5_Witness ==
    /\ translate_calls = 1
    /\ response.kind = "raise"
    /\ translated_text = TranslationError
    /\ cb_pc = "display_subtitles"

\* C6: when an overlay update has failed while a RecognizedSpeech event was
\* handled, the handler still ends normally, having produced the chunks of the
\* translation and attempted every one of them in order.
C6_FailureIsolated ==
    (HandlerEnded /\ Recognized /\ \E k \in 1..Len(sent) : ~sent[k].ok) =>
        /\ raised = "none"
        /\ Len(subtitle_chunks) >= 1
        /\ Len(sent) >= Len(subtitle_chunks)
        /\ SubSeq(SentTexts, Len(sent) - Len(subtitle_chunks) + 1, Len(sent))
              = subtitle_chunks

\* C7: an event whose reason is not RecognizedSpeech causes no translation
\* call and no overlay update, and leaves the overlay's text as it was.
C7_OtherReasonsOnlyLog ==
    (cur > 0 /\ ~Recognized) =>
        /\ translate_calls = 0
        /\ response = NoResponse
        /\ sent = <<>>
        /\ obs_text = obs_before
        /\ cb_pc \in {"on_recognized", "idle"}

C7_Witness ==
    /\ HandlerEnded
    /\ event.reason = "Canceled"
    /\ event.cancel = "Error"
    /\ obs_text = TestSubtitle

C9_OneEventAtATime ==
    /\ [](/\ cb_pc # "idle" => ended = cur - 1
          /\ cb_pc = "idle" => ended = cur)
    /\ [][(translate_calls' > translate_calls \/ Len(sent') > Len(sent)) =>
             (cur' = cur /\ ended = cur - 1 /\ ended' \in {ended, cur})]_vars

C9_Witness ==
    /\ cur = 2
    /\ ended = 1
    /\ cb_pc = "translate"
    /\ obs_text \notin {TestSubtitle, PriorOverlayText}

\* C10: for a RecognizedSpeech event the first overlay update carries the whole
\* translated text, and nothing of the chunking has happened before it is sent.
C10_FullTextFirst ==
    (cur > 0 /\ Recognized) =>
        \/ /\ cb_pc \in {"on_recognized", "translate", "display_subtitles"}
           /\ sent = <<>>
           /\ wi = 0 /\ ci = 0
           /\ current_chunk = <<>> /\ subtitle_chunks = <<>>
        \/ /\ Len(sent) >= 1
           /\ sent[1].text = translated_text

C10_Witness ==
    /\ cb_pc = "loop"
    /\ Len(sent) = 1
    /\ sent[1].ok
    /\ Len(sent[1].text) > MAX_SUBTITLE_LENGTH
    /\ obs_text = translated_text

====
